---- MODULE Spec2Model ----
(***************************************************************************)
(* A model of python3/zotero.py (class ZoteroEntries): the load pipeline   *)
(* that turns zotero.sqlite into the per-collection index _e, the citation *)
(* key generator, SetCollections, GetMatch and GetYamlRefs.                *)
(*                                                                         *)
(* Python strings whose characters the code inspects (titles, dates,       *)
(* names, citation keys, patterns) are sequences of one-character strings. *)
(* Identifiers the code only compares as a whole (zotero keys, item types, *)
(* collection names, field names) are TLA+ strings.                        *)
(***************************************************************************)
EXTENDS Integers, Sequences, FiniteSets, TLC

VARIABLES
    cite,     \* self._cite : template for citation keys (sequence of tokens)
    w,        \* self._w    : banned title words, ONE string (never split)
    z,        \* the file zotero.sqlite (self._z) : its tables
    mtime,    \* os.path.getmtime(self._z)
    copy,     \* the tables of copy_of_zotero.sqlite that the last load read
    m,        \* self._m : mtime recorded by the last load
    e,        \* self._e : entries by collection (insertion-ordered dict)
    d,        \* self._d : collections of each markdown document
    asked,    \* history: the clist of the last SetCollections of each document
    pc,       \* "new" before __init__ has loaded the data, then "ready"
    op,       \* the last call and its arguments
    ret,      \* what the last SetCollections returned
    resp,     \* what the last GetMatch returned
    ref,      \* what the last GetYamlRefs returned
    raised,   \* the exception the last call ended with ("" for none)
    nexp,     \* number of GetYamlRefs calls so far (bounds the model)
    kin,      \* citation key harness: the item given to the generator
    kout,     \* citation key harness: the item with 'year' and 'citekey'
    kpc       \* citation key harness: "input" or "done"

vars == <<cite, w, z, mtime, copy, m, e, d, asked, pc, op, ret, resp, ref, raised,
          nexp, kin, kout, kpc>>

(***************************************************************************)
(* Bounds of the model                                                     *)
(***************************************************************************)
\* How many times the Zotero application writes zotero.sqlite.
MaxTime == 2
\* How many times GetYamlRefs is called.
MaxExports == 1

(***************************************************************************)
(* Characters and Python string methods                                    *)
(***************************************************************************)
LOWER == <<"a","b","c","d","e","f","g","h","i","j","k","l","m",
           "n","o","p","q","r","s","t","u","v","w","x","y","z">>
UPPER == <<"A","B","C","D","E","F","G","H","I","J","K","L","M",
           "N","O","P","Q","R","S","T","U","V","W","X","Y","Z">>
DIGITS == {"0","1","2","3","4","5","6","7","8","9"}

Range(s) == {s[i] : i \in DOMAIN s}

IsLower(c) == c \in Range(LOWER)
IsUpper(c) == c \in Range(UPPER)
IsAlpha(c) == IsLower(c) \/ IsUpper(c)
IsDigit(c) == c \in DIGITS
\* the regular expression class \w (its complement is \W)
IsWord(c) == IsAlpha(c) \/ IsDigit(c) \/ c = "_"

CharLower(c) == IF IsUpper(c) THEN LOWER[CHOOSE i \in DOMAIN UPPER : UPPER[i] = c] ELSE c
CharUpper(c) == IF IsLower(c) THEN UPPER[CHOOSE i \in DOMAIN LOWER : LOWER[i] = c] ELSE c

\* str.lower()
StrLower(s) == [i \in 1..Len(s) |-> CharLower(s[i])]
\* str.title(): a letter that follows a letter is lowered, any other is raised
StrTitle(s) == [i \in 1..Len(s) |->
                  IF i > 1 /\ IsAlpha(s[i-1]) THEN CharLower(s[i]) ELSE CharUpper(s[i])]

\* s[from..] as a Python slice, 1-based
Drop(s, n) == SubSeq(s, n + 1, Len(s))

\* whether p occurs in s at 0-based position i
OccursAt(s, p, i) == /\ i >= 0
                     /\ i + Len(p) <= Len(s)
                     /\ SubSeq(s, i + 1, i + Len(p)) = p
\* str.find(p): the lowest 0-based position of p in s, -1 when there is none
Find(s, p) == IF \E i \in 0..Len(s) : OccursAt(s, p, i)
              THEN CHOOSE i \in 0..Len(s) :
                     /\ OccursAt(s, p, i)
                     /\ \A j \in 0..(i-1) : ~OccursAt(s, p, j)
              ELSE -1

\* re.sub('[<stops>].*', '', s): s up to the first character of stops
CutAt(s, stops) == IF \E i \in DOMAIN s : s[i] \in stops
                   THEN SubSeq(s, 1, (CHOOSE i \in DOMAIN s :
                                        /\ s[i] \in stops
                                        /\ \A j \in 1..(i-1) : s[j] \notin stops) - 1)
                   ELSE s

NotSpaceChar(c) == c # " "

\* re.sub('\W', '', s)
StripNonWord(s) == SelectSeq(s, IsWord)
\* re.sub(' ', '', s)
StripSpaces(s) == SelectSeq(s, NotSpaceChar)

RECURSIVE EscapeQuotes(_)
\* re.sub('"', '\\"', s): a backslash is put before every double quote
EscapeQuotes(s) == IF s = <<>> THEN <<>>
                   ELSE (IF Head(s) = "\"" THEN <<"\\", "\"">> ELSE <<Head(s)>>)
                        \o EscapeQuotes(Tail(s))

RECURSIVE Flatten(_)
\* the concatenation of a sequence of sequences
Flatten(ss) == IF ss = <<>> THEN <<>> ELSE Head(ss) \o Flatten(Tail(ss))

(***************************************************************************)
(* Python dicts as functions                                               *)
(***************************************************************************)
\* dict[k] = v
Put(f, k, v) == [x \in (DOMAIN f) \cup {k} |-> IF x = k THEN v ELSE f[x]]

(***************************************************************************)
(* __init__: configuration                                                 *)
(***************************************************************************)
\* '{Author}_{Year}': a template is a sequence of placeholders and characters
DefaultCite == <<"{Author}", "_", "{Year}">>
\* 'a an the some from on in to of do with'
DefaultBannedWords == <<"a"," ","a","n"," ","t","h","e"," ","s","o","m","e"," ",
                        "f","r","o","m"," ","o","n"," ","i","n"," ","t","o"," ",
                        "o","f"," ","d","o"," ","w","i","t","h">>

(***************************************************************************)
(* _calculate_citekeys                                                     *)
(***************************************************************************)
\* re.sub(' .*', '', date).split('-')[0]
YearOf(date) == CutAt(CutAt(date, {" "}), {"-"})

\* re.sub(ptrn, '', title) with ptrn = '^(' + ' |'.join(self._w) + ' )'.
\* self._w is a string, so join runs over its CHARACTERS: the alternatives
\* are 'c ' for every character c of self._w ('^( )' when it is empty).
StripBanned(title, bw) ==
    IF bw = <<>>
    THEN IF Len(title) >= 1 /\ title[1] = " " THEN Drop(title, 1) ELSE title
    ELSE IF Len(title) >= 2 /\ title[1] \in Range(bw) /\ title[2] = " "
         THEN Drop(title, 2) ELSE title

\* re.sub('^[a-z] ', '', title)
StripOneLetter(title) ==
    IF Len(title) >= 2 /\ IsLower(title[1]) /\ title[2] = " "
    THEN Drop(title, 2) ELSE title

TitleStops == {" ", ",", ";", ":", ".", "!", "?"}

\* titlew of lines 308-310
TitleWord(title, bw) ==
    CutAt(StripOneLetter(StripBanned(StrLower(title), bw)), TitleStops)

\* re.sub('^[0-9][0-9]', '', year)
ShortYear(year) ==
    IF Len(year) >= 2 /\ IsDigit(year[1]) /\ IsDigit(year[2])
    THEN Drop(year, 2) ELSE year

\* lines 321-326: what one token of the template becomes. The values put in
\* hold no brace, so substituting the placeholders one after the other equals
\* substituting them at once.
Substitute(tok, lastname, year, titlew) ==
    CASE tok = "{author}" -> StrLower(lastname)
      [] tok = "{Author}" -> StrTitle(lastname)
      [] tok = "{year}"   -> ShortYear(year)
      [] tok = "{Year}"   -> year
      [] tok = "{title}"  -> StrLower(titlew)
      [] tok = "{Title}"  -> StrTitle(titlew)
      [] OTHER            -> <<tok>>

\* lines 320-326 without the final removal of spaces
FillTemplate(tmpl, lastname, year, titlew) ==
    Flatten([i \in 1..Len(tmpl) |-> Substitute(tmpl[i], lastname, year, titlew)])

\* a plausible slip: the final re.sub(' ', '', key) is forgotten
MakeKeyKeepSpaces(tmpl, lastname, year, titlew) ==
    FillTemplate(tmpl, lastname, year, titlew)

\* lines 320-327
MakeKey(tmpl, lastname, year, titlew) ==
    StripSpaces(FillTemplate(tmpl, lastname, year, titlew))

NoAuthor == <<"N","o","_","a","u","t","h","o","r">>

\* lines 314-318
LastNameOf(it) ==
    StripNonWord(IF "author" \in DOMAIN it THEN it.author[1][1] ELSE NoAuthor)

\* lines 302-313 and 319
TitleWordOf(it, bw) ==
    StripNonWord(IF "title" \in DOMAIN it THEN TitleWord(it.title, bw) ELSE <<>>)

ItemYear(it) == IF "date" \in DOMAIN it THEN YearOf(it.date) ELSE <<>>

\* the body of the loop of _calculate_citekeys for one item of self._t
CalcCitekey(it, tmpl, bw) ==
    LET year == ItemYear(it)
        it1  == Put(it, "year", year)
        it2  == IF "title" \in DOMAIN it1 THEN it1 ELSE Put(it1, "title", <<>>)
    IN  Put(it2, "citekey", MakeKey(tmpl, LastNameOf(it), year, TitleWordOf(it, bw)))

\* _calculate_citekeys over self._t, a function from item ids to items
CalculateCitekeys(t, tmpl, bw) == [k \in DOMAIN t |-> CalcCitekey(t[k], tmpl, bw)]

(***************************************************************************)
(* zotero.sqlite                                                           *)
(*                                                                         *)
(* The database holds at most three items. What its tables say of an item  *)
(* that is there is fixed below; the Zotero application changes which      *)
(* items are there, which are in the trash (deletedItems) and which        *)
(* collections they are filed in (collectionItems). The tables itemNotes,  *)
(* itemTags and itemAttachments are empty.                                 *)
(***************************************************************************)
ItemIds == {1, 2, 3}

\* items.key
ItemKey(i) == CASE i = 1 -> "K1" [] i = 2 -> "K2" [] i = 3 -> "K3"

\* itemTypes.typeName
ItemType(i) == CASE i = 1 -> "journalArticle" [] i = 2 -> "book" [] i = 3 -> "attachment"

\* itemData joined with fields and itemDataValues: <<fieldName, value>>
ItemData(i) ==
    CASE i = 1 -> << <<"title", <<"T","h","e"," ","\"","q","\"">> >>,
                     <<"date", <<"2","0","2","0","-","0","5","-","0","0"," ","x">> >> >>
      [] i = 2 -> << <<"title", <<"x","a","b">> >> >>
      [] i = 3 -> << <<"title", <<"a","b">> >> >>

\* itemCreators joined with creators and creatorTypes, by orderIndex:
\* <<creatorType, lastName, firstName>>
ItemCreators(i) ==
    CASE i = 1 -> << <<"author", <<"A","b">>, <<"X">> >>,
                     <<"author", <<"C","d">>, <<"Y">> >> >>
      [] i = 2 -> << >>
      [] i = 3 -> << >>

\* collections.collectionName, in the order SQLite's comparison gives them
CollNames == <<"Alpha", "To Read", "Zeta">>
Collections == Range(CollNames)
NameRank(n) == CHOOSE i \in DOMAIN CollNames : CollNames[i] = n

\* Python's None, the collection of an item that is in no collection
None == "<None>"

RECURSIVE SortIds(_)
\* the item ids of the finite set S in ascending (rowid) order
SortIds(S) ==
    IF S = {} THEN <<>>
    ELSE LET x == CHOOSE x \in S : \A y \in S : x <= y
         IN  <<x>> \o SortIds(S \ {x})

\* the rows of a table that has, for each item i of the set S, the rows
\* rows[i] prefixed with the item's id; in rowid order
RowsOf(S, rows) ==
    LET ids == SortIds(S)
    IN  Flatten([n \in 1..Len(ids) |->
                   [j \in 1..Len(rows[ids[n]]) |-> <<ids[n]>> \o rows[ids[n]][j]]])

\* the query of _add_most_fields: <<itemID, key, fieldName, value>>
FieldRowsOf(i) == [j \in 1..Len(ItemData(i)) |-> <<ItemKey(i)>> \o ItemData(i)[j]]
QueryFields(db) == RowsOf(db.items, [i \in ItemIds |-> FieldRowsOf(i)])

\* a plausible slip: ORDER by collections.collectionName alone
OrderByName(n) == NameRank(n)

\* ORDER by collections.collectionName != "To Read", collections.collectionName
\* as one number: the comparison is 0 for "To Read" and 1 for any other name
OrderBy(n) == (IF n # "To Read" THEN 1 ELSE 0) * (Len(CollNames) + 1) + NameRank(n)

\* the place of a row <<itemID, collectionName>> in the ordered result; rows
\* that ORDER by leaves tied come in rowid order
CollRowKey(r) == OrderBy(r[2]) * (Cardinality(ItemIds) + 1) + r[1]

RECURSIVE SortCollRows(_)
SortCollRows(S) ==
    IF S = {} THEN <<>>
    ELSE LET x == CHOOSE x \in S : \A y \in S : CollRowKey(x) <= CollRowKey(y)
         IN  <<x>> \o SortCollRows(S \ {x})

\* the query of _add_collection: <<itemID, collectionName>>, ordered
QueryCollections(db) ==
    SortCollRows({r \in ItemIds \X Collections :
                    r[1] \in db.items /\ r[2] \in db.member[r[1]]})

\* the query of _add_authors: <<itemID, creatorType, lastName, firstName>>
QueryCreators(db) == RowsOf(db.items, [i \in ItemIds |-> ItemCreators(i)])

\* the query of _add_type: <<itemID, typeName>>
TypeRowsOf(i) == << <<ItemType(i)>> >>
QueryTypes(db) == RowsOf(db.items, [i \in ItemIds |-> TypeRowsOf(i)])

\* SELECT itemID FROM deletedItems, as the list d of _separate_by_collection
QueryDeleted(db) == SortIds(db.deleted)

(***************************************************************************)
(* _load_zotero_data: the passes that fill self._t                         *)
(***************************************************************************)
EmptyDict == <<>>

RECURSIVE AddMostFieldsFrom(_, _)
AddMostFieldsFrom(t, rows) ==
    IF rows = <<>> THEN t
    ELSE LET r  == Head(rows)
             t1 == IF r[1] \in DOMAIN t THEN t
                   ELSE Put(t, r[1], [zotkey |-> r[2], collection |-> None,
                                      alastnm |-> <<>>, tags |-> <<>>])
         IN  AddMostFieldsFrom(Put(t1, r[1], Put(t1[r[1]], r[3], r[4])), Tail(rows))

\* _add_most_fields: self._t = {} and then one item per itemID
AddMostFields(rows) == AddMostFieldsFrom(EmptyDict, rows)

RECURSIVE AddCollection(_, _)
\* _add_collection: the last row of an item wins
AddCollection(t, rows) ==
    IF rows = <<>> THEN t
    ELSE LET r == Head(rows)
         IN  AddCollection(IF r[1] \in DOMAIN t
                           THEN Put(t, r[1], Put(t[r[1]], "collection", r[2]))
                           ELSE t,
                           Tail(rows))

RECURSIVE AddAuthors(_, _)
\* _add_authors
AddAuthors(t, rows) ==
    IF rows = <<>> THEN t
    ELSE LET r   == Head(rows)
             it  == t[r[1]]
             it1 == IF r[2] \in DOMAIN it
                    THEN Put(it, r[2], Append(it[r[2]], <<r[3], r[4]>>))
                    ELSE Put(it, r[2], << <<r[3], r[4]>> >>)
             it2 == IF r[2] = "author"
                    THEN Put(it1, "alastnm", it1.alastnm \o <<",", " ">> \o r[3])
                    ELSE it1
         IN  AddAuthors(IF r[1] \in DOMAIN t THEN Put(t, r[1], it2) ELSE t, Tail(rows))

RECURSIVE AddType(_, _)
\* _add_type
AddType(t, rows) ==
    IF rows = <<>> THEN t
    ELSE LET r == Head(rows)
         IN  AddType(IF r[1] \in DOMAIN t
                     THEN Put(t, r[1], Put(t[r[1]], "etype", r[2]))
                     ELSE t,
                     Tail(rows))

(***************************************************************************)
(* self._e: a dict of dicts, kept in insertion order. It is a sequence of  *)
(* buckets [name, items]; items is a sequence of [k, v], k the item id     *)
(* (the code's str(k)) and v the entry.                                    *)
(***************************************************************************)
IndexKeys(ix) == [i \in 1..Len(ix) |-> ix[i].name]
HasKey(ix, c) == \E i \in DOMAIN ix : ix[i].name = c
Bucket(ix, c) == ix[CHOOSE i \in DOMAIN ix : ix[i].name = c].items
\* the entries of the index as <<collection, k>>
IndexIds(ix) ==
    UNION {{<<ix[i].name, ix[i].items[j].k>> : j \in 1..Len(ix[i].items)} : i \in DOMAIN ix}
EntryOf(ix, c, k) ==
    LET its == Bucket(ix, c) IN its[CHOOSE j \in DOMAIN its : its[j].k = k].v

\* bucket[k] = v
PutItem(its, k, v) ==
    IF \E j \in DOMAIN its : its[j].k = k
    THEN [j \in DOMAIN its |-> IF its[j].k = k THEN [k |-> k, v |-> v] ELSE its[j]]
    ELSE Append(its, [k |-> k, v |-> v])

\* lines 342-344: self._e[c][str(k)] = v, with a new bucket when c has none
InsertEntry(ix, c, k, v) ==
    IF HasKey(ix, c)
    THEN [i \in DOMAIN ix |-> IF ix[i].name = c
                              THEN [name |-> c, items |-> PutItem(ix[i].items, k, v)]
                              ELSE ix[i]]
    ELSE Append(ix, [name |-> c, items |-> <<[k |-> k, v |-> v]>>])

\* a plausible slip: only the trash is looked at, attachments are kept
SkippedTrashOnly(t, k, del) == k \in Range(del)

\* line 339: the items that get no entry
Skipped(t, k, del) == k \in Range(del) \/ t[k].etype = "attachment"

\* re.sub('^, ', '', alastnm)
TrimSeparator(s) ==
    IF Len(s) >= 2 /\ s[1] = "," /\ s[2] = " " THEN Drop(s, 2) ELSE s

RECURSIVE SeparateFrom(_, _, _, _)
\* the loop of lines 338-344 over the items ks of t, filling ix
SeparateFrom(ix, t, ks, del) ==
    IF ks = <<>> THEN ix
    ELSE LET k == Head(ks)
             v == Put(t[k], "alastnm", TrimSeparator(t[k].alastnm))
         IN  SeparateFrom(IF Skipped(t, k, del) THEN ix
                          ELSE InsertEntry(ix, t[k].collection, k, v),
                          t, Tail(ks), del)

\* a plausible slip: self._e is not emptied, the new entries join the old
SeparateByCollectionStale(t, del) == SeparateFrom(e, t, SortIds(DOMAIN t), del)

\* _separate_by_collection: self._e = {} and then the loop
SeparateByCollection(t, del) == SeparateFrom(<<>>, t, SortIds(DOMAIN t), del)

\* _load_zotero_data, from the tables of the copy to the new self._e
LoadZoteroData(db, tmpl, bw) ==
    LET t1 == AddMostFields(QueryFields(db))
        t2 == AddCollection(t1, QueryCollections(db))
        t3 == AddAuthors(t2, QueryCreators(db))
        t4 == AddType(t3, QueryTypes(db))
        t5 == CalculateCitekeys(t4, tmpl, bw)
    IN  SeparateByCollection(t5, QueryDeleted(db))

(***************************************************************************)
(* SetCollections                                                          *)
(***************************************************************************)
RECURSIVE KnownPrefix(_, _)
\* lines 167-171: the names appended before the loop ends or returns
KnownPrefix(ix, clist) ==
    IF clist = <<>> \/ ~HasKey(ix, Head(clist)) THEN <<>>
    ELSE <<Head(clist)>> \o KnownPrefix(ix, Tail(clist))

\* lines 161-169: self._d[d] when the call returns
BoundList(ix, clist) ==
    IF clist = <<"">> THEN IndexKeys(ix) ELSE KnownPrefix(ix, clist)

\* lines 171-172: the string returned, in pieces; <<>> is ''
BindResult(ix, clist) ==
    IF clist = <<"">> \/ Len(KnownPrefix(ix, clist)) = Len(clist) THEN <<>>
    ELSE <<"Collection \"", clist[Len(KnownPrefix(ix, clist)) + 1],
           "\" not found in Zotero database.">>

(***************************************************************************)
(* GetMatch                                                                *)
(***************************************************************************)
\* _get_compl_line: zotkey#citekey TAB alastnm-or-space TAB (year) title,
\* as the record of its parts
ComplLine(en) ==
    [zotkey |-> en.zotkey, citekey |-> en.citekey,
     alastnm |-> IF en.alastnm = <<>> THEN <<" ">> ELSE en.alastnm,
     year |-> en.year, title |-> en.title]

\* e['alastnm'][0][0]: alastnm is a string, so this is its first character
FirstAuthorChar(en) == <<en.alastnm[1]>>

\* lines 376-387: the list an entry is appended to, 0 for none
Priority(en, ptrn) ==
    IF Find(StrLower(en.citekey), ptrn) = 0 THEN 1
    ELSE IF en.alastnm # <<>> /\ Find(StrLower(FirstAuthorChar(en)), ptrn) = 0 THEN 2
    ELSE IF Find(StrLower(en.title), ptrn) = 0 THEN 3
    ELSE IF Find(StrLower(en.citekey), ptrn) > 0 THEN 4
    ELSE IF en.alastnm # <<>> /\ Find(StrLower(FirstAuthorChar(en)), ptrn) > 0 THEN 5
    ELSE IF Find(StrLower(en.title), ptrn) > 0 THEN 6
    ELSE 0

\* the entries visited by the loops of lines 374-375, in order
Candidates(ix, collections) ==
    Flatten([i \in 1..Len(collections) |->
               [j \in 1..Len(Bucket(ix, collections[i])) |->
                  Bucket(ix, collections[i])[j].v]])

\* p1 + p2 + p3 + p4 + p5 + p6
RankedLines(ix, collections, ptrn) ==
    LET cands == Candidates(ix, collections)
        Pn(n) == LET At(en) == Priority(en, ptrn) = n
                     sel == SelectSeq(cands, At)
                 IN  [i \in 1..Len(sel) |-> ComplLine(sel[i])]
    IN  Pn(1) \o Pn(2) \o Pn(3) \o Pn(4) \o Pn(5) \o Pn(6)

\* lines 363-365
SearchedCollections(ix, bound) == IF bound = <<>> THEN IndexKeys(ix) ELSE bound

(***************************************************************************)
(* GetYamlRefs                                                             *)
(***************************************************************************)
\* _zct: conversion from zotero.sqlite to CSL types
Zct ==
    [
     artwork |-> "graphic",
     audioRecording |-> "song",
     blogPost |-> "post-weblog",
     bookSection |-> "chapter",
     case |-> "legal_case",
     computerProgram |-> "book",
     conferencePaper |-> "paper-conference",
     dictionaryEntry |-> "entry-dictionary",
     document |-> "report",
     email |-> "personal_communication",
     encyclopediaArticle |-> "entry-encyclopedia",
     film |-> "motion_picture",
     forumPost |-> "post",
     hearing |-> "bill",
     instantMessage |-> "personal_communication",
     interview |-> "interview",
     journalArticle |-> "article-journal",
     letter |-> "personal_communication",
     magazineArticle |-> "article-magazine",
     newspaperArticle |-> "article-newspaper",
     note |-> "manuscript",
     podcast |-> "broadcast",
     presentation |-> "speech",
     radioBroadcast |-> "broadcast",
     statute |-> "legislation",
     tvBroadcast |-> "broadcast",
     videoRecording |-> "motion_picture"]

\* _zcf: conversion from zotero.sqlite to CSL fields
Zcf ==
    [
     abstractNote |-> "abstract",
     accessDate |-> "accessed",
     applicationNumber |-> "call-number",
     archiveLocation |-> "archive_location",
     artworkMedium |-> "medium",
     artworkSize |-> "dimensions",
     audioFileType |-> "medium",
     blogTitle |-> "container-title",
     bookTitle |-> "container-title",
     callNumber |-> "call-number",
     code |-> "container-title",
     codeNumber |-> "volume",
     codePages |-> "page",
     codeVolume |-> "volume",
     conferenceName |-> "event",
     court |-> "authority",
     date |-> "issued",
     dictionaryTitle |-> "container-title",
     distributor |-> "publisher",
     encyclopediaTitle |-> "container-title",
     extra |-> "note",
     filingDate |-> "submitted",
     forumTitle |-> "container-title",
     history |-> "references",
     institution |-> "publisher",
     interviewMedium |-> "medium",
     issuingAuthority |-> "authority",
     legalStatus |-> "status",
     legislativeBody |-> "authority",
     libraryCatalog |-> "source",
     meetingName |-> "event",
     numPages |-> "number-of-pages",
     numberOfVolumes |-> "number-of-volumes",
     pages |-> "page",
     place |-> "publisher-place",
     priorityNumbers |-> "issue",
     proceedingsTitle |-> "container-title",
     programTitle |-> "container-title",
     programmingLanguage |-> "genre",
     publicationTitle |-> "container-title",
     reporter |-> "container-title",
     runningTime |-> "dimensions",
     series |-> "collection-title",
     seriesNumber |-> "collection-number",
     seriesTitle |-> "collection-title",
     session |-> "chapter-number",
     shortTitle |-> "title-short",
     system |-> "medium",
     thesisType |-> "genre",
     type |-> "genre",
     university |-> "publisher",
     url |-> "URL",
     versionNumber |-> "version",
     websiteTitle |-> "container-title",
     websiteType |-> "genre"]

\* the keys of an entry whose values are not character strings: lists, and
\* the identifiers the model keeps whole (they hold no double quote)
ListFields == {"tags", "author", "editor", "contributor", "translator",
               "container-author"}
AtomFields == {"zotkey", "collection", "etype"}

\* line 393-394
FixType(en) ==
    IF en.etype \in DOMAIN Zct THEN Put(en, "etype", Zct[en.etype]) ELSE en

\* lines 396-398
EscapeFields(en) ==
    [f \in DOMAIN en |-> IF f \in ListFields \cup AtomFields THEN en[f]
                         ELSE EscapeQuotes(en[f])]

CslField(f) == IF f \in DOMAIN Zcf THEN Zcf[f] ELSE f

\* lines 399-402; no item of the database has two fields of one CSL name
RenameFields(en) ==
    [g \in {CslField(f) : f \in DOMAIN en} |->
       en[CHOOSE f \in DOMAIN en : CslField(f) = g]]

\* lines 393-402: what _get_yaml_ref leaves in the dict e it was given
YamlEntry(en) == RenameFields(EscapeFields(FixType(en)))

RECURSIVE SplitDash(_)
\* str.split('-')
SplitDash(s) ==
    IF \E i \in DOMAIN s : s[i] = "-"
    THEN <<CutAt(s, {"-"})>> \o SplitDash(Drop(s, Len(CutAt(s, {"-"})) + 1))
    ELSE <<s>>

CreatorRoles == <<"author", "editor", "contributor", "translator", "container-author">>

Dont == {"etype", "issued", "abstract", "citekey", "zotkey", "collection",
         "author", "editor", "contributor", "translator", "alastnm",
         "container-author", "tags", "year"}

\* lines 412-419: the lines under 'issued:', <<>> for a part left out
Issued(en) ==
    IF "issued" \notin DOMAIN en THEN <<>>
    ELSE LET dd == SplitDash(CutAt(en.issued, {" "}))
         IN  IF dd[1] = <<"0","0","0","0">> THEN <<>>
             ELSE <<en.year,
                    IF dd[2] # <<"0","0">> THEN dd[2] ELSE <<>>,
                    IF dd[3] # <<"0","0">> THEN dd[3] ELSE <<>> >>

\* lines 404-426: the YAML list item, as the record of what it states; en is
\* the dict after lines 393-402, k the key as it was asked for
YamlRef(en, k) ==
    [type     |-> en.etype,
     id       |-> k,
     creators |-> SelectSeq([i \in DOMAIN CreatorRoles |->
                               IF CreatorRoles[i] \in DOMAIN en
                               THEN <<CreatorRoles[i], en[CreatorRoles[i]]>>
                               ELSE <<>>],
                            LAMBDA x : x # <<>>),
     issued   |-> Issued(en),
     fields   |-> [f \in (DOMAIN en) \ Dont |-> en[f]]]

\* re.sub('#.*', '', k) of a key 'zotkey#citekey'
ZotkeyOf(k) == k.zot

RECURSIVE YamlWalk(_, _, _, _, _, _)
\* the loops of lines 435-440 from bucket b, item j, key n on: the index as
\* _get_yaml_ref leaves it and the references rendered, in order
YamlWalk(ix, out, keys, b, j, n) ==
    IF b > Len(ix) THEN [ix |-> ix, ref |-> out]
    ELSE IF j > Len(ix[b].items) THEN YamlWalk(ix, out, keys, b + 1, 1, 1)
    ELSE IF n > Len(keys) THEN YamlWalk(ix, out, keys, b, j + 1, 1)
    ELSE LET it == ix[b].items[j]
         IN  IF ZotkeyOf(keys[n]) = it.v.zotkey
             THEN YamlWalk(InsertEntry(ix, ix[b].name, it.k, YamlEntry(it.v)),
                           Append(out, YamlRef(YamlEntry(it.v), keys[n])),
                           keys, b, j, n + 1)
             ELSE YamlWalk(ix, out, keys, b, j, n + 1)

\* GetYamlRefs: [ix, ref]; ref is the list under 'references:' of the
\* document returned, <<>> when the string returned is ''
YamlRefs(ix, keys) == YamlWalk(ix, <<>>, keys, 1, 1, 1)

(***************************************************************************)
(* The object and its callers                                              *)
(***************************************************************************)
\* the markdown documents of the editor
Docs == {"doc.md"}
\* the collection lists the editor sends; [''] is what it sends for none
CLists == { <<"">>, <<>>, <<"Zeta", "Alpha">>, <<"Alpha", "Nowhere">> }
\* the patterns the editor sends, in lower case
Patterns == { <<"a","b">>, <<"c","d">> }
\* the keys 'zotkey#citekey' found in a document
Key(i) == [zot |-> ItemKey(i), rest |-> "citekey"]
KeyLists == { <<Key(1)>>, <<Key(3), Key(2), Key(1)>> }

\* zotero.sqlite when the object is constructed
Database0 ==
    [items   |-> ItemIds,
     member  |-> [i \in ItemIds |-> CASE i = 1 -> {"To Read", "Alpha"}
                                      [] i = 2 -> {}
                                      [] i = 3 -> {"Alpha"}],
     deleted |-> {}]

NoDatabase == [items |-> {}, member |-> [i \in ItemIds |-> {}], deleted |-> {}]

Call(name, doc, clist, ptrn, keys) ==
    [name |-> name, doc |-> doc, clist |-> clist, ptrn |-> ptrn, keys |-> keys]

\* lines 106-119 of __init__: the fields before the data is loaded
Init ==
    /\ cite = DefaultCite
    /\ w = DefaultBannedWords
    /\ z = Database0
    /\ mtime = 0
    /\ copy = NoDatabase
    /\ m = 0
    /\ e = <<>>
    /\ d = EmptyDict
    /\ asked = EmptyDict
    /\ pc = "new"
    /\ op = Call("none", "", <<>>, <<>>, <<>>)
    /\ ret = <<>>
    /\ resp = <<>>
    /\ ref = <<>>
    /\ raised = ""
    /\ nexp = 0
    /\ kin = EmptyDict
    /\ kout = EmptyDict
    /\ kpc = "off"

\* lines 148-151 of __init__: self._load_zotero_data() and self._d = {}
Construct ==
    /\ pc = "new"
    /\ m' = mtime
    /\ copy' = z
    /\ e' = LoadZoteroData(z, cite, w)
    /\ d' = EmptyDict
    /\ asked' = EmptyDict
    /\ pc' = "ready"
    /\ op' = Call("init", "", <<>>, <<>>, <<>>)
    /\ ret' = <<>> /\ resp' = <<>> /\ ref' = <<>> /\ raised' = ""
    /\ UNCHANGED <<cite, w, z, mtime, nexp, kin, kout, kpc>>

\* SetCollections(d, clist)
SetCollections(doc, clist) ==
    /\ pc = "ready"
    /\ d' = Put(d, doc, BoundList(e, clist))
    /\ asked' = Put(asked, doc, clist)
    /\ ret' = BindResult(e, clist)
    /\ op' = Call("SetCollections", doc, clist, <<>>, <<>>)
    /\ resp' = <<>> /\ ref' = <<>> /\ raised' = ""
    /\ UNCHANGED <<cite, w, z, mtime, copy, m, e, pc, nexp, kin, kout, kpc>>

\* lines 360-361: self._e once the data has been loaded again, if it must be
Refreshed == IF mtime > m THEN LoadZoteroData(z, cite, w) ELSE e

\* GetMatch(ptrn, d); self._d[d] and self._e[c] raise KeyError
GetMatch(ptrn, doc) ==
    /\ pc = "ready"
    /\ m' = IF mtime > m THEN mtime ELSE m
    /\ copy' = IF mtime > m THEN z ELSE copy
    /\ \E e1 \in {Refreshed} :
         /\ e' = e1
         /\ IF doc \in DOMAIN d
            THEN \E cs \in {SearchedCollections(e1, d[doc])} :
                   IF \A c \in Range(cs) : HasKey(e1, c)
                   THEN raised' = "" /\ resp' = RankedLines(e1, cs, ptrn)
                   ELSE raised' = "KeyError" /\ resp' = <<>>
            ELSE raised' = "KeyError" /\ resp' = <<>>
    /\ op' = Call("GetMatch", doc, <<>>, ptrn, <<>>)
    /\ ret' = <<>> /\ ref' = <<>>
    /\ UNCHANGED <<cite, w, z, mtime, d, asked, pc, nexp, kin, kout, kpc>>

\* GetYamlRefs(keys)
GetYamlRefs(keys) ==
    /\ pc = "ready"
    /\ nexp < MaxExports
    /\ nexp' = nexp + 1
    /\ \E r \in {YamlRefs(e, keys)} : e' = r.ix /\ ref' = r.ref
    /\ op' = Call("GetYamlRefs", "", <<>>, <<>>, keys)
    /\ ret' = <<>> /\ resp' = <<>> /\ raised' = ""
    /\ UNCHANGED <<cite, w, z, mtime, copy, m, d, asked, pc, kin, kout, kpc>>

\* what every write of the Zotero application to zotero.sqlite does
ZoteroWrites(db) ==
    /\ pc = "ready"
    /\ mtime < MaxTime
    /\ mtime' = mtime + 1
    /\ z' = db
    /\ op' = Call("zotero", "", <<>>, <<>>, <<>>)
    /\ ret' = <<>> /\ resp' = <<>> /\ ref' = <<>> /\ raised' = ""
    /\ UNCHANGED <<cite, w, copy, m, e, d, asked, pc, nexp, kin, kout, kpc>>

\* the user files item i in collection c, or takes it out of it
ZoteroFiles(i, c) ==
    ZoteroWrites([z EXCEPT !.member[i] = IF c \in @ THEN @ \ {c} ELSE @ \cup {c}])

\* the user moves item i to the trash, or restores it
ZoteroTrashes(i) ==
    ZoteroWrites([z EXCEPT !.deleted = IF i \in @ THEN @ \ {i} ELSE @ \cup {i}])

\* the user erases item i for good, or creates it
ZoteroErases(i) ==
    ZoteroWrites([z EXCEPT !.items = IF i \in @ THEN @ \ {i} ELSE @ \cup {i}])

\* the items the user works on; item 3, the attachment, stays as it is
Papers == {1, 2}

Next ==
    \/ Construct
    \/ \E doc \in Docs, clist \in CLists : SetCollections(doc, clist)
    \/ \E ptrn \in Patterns, doc \in Docs : GetMatch(ptrn, doc)
    \/ \E keys \in KeyLists : GetYamlRefs(keys)
    \/ \E i \in Papers, c \in Collections : ZoteroFiles(i, c)
    \/ \E i \in Papers : ZoteroTrashes(i)
    \/ \E i \in Papers : ZoteroErases(i)

Spec == Init /\ [][Next]_vars

(***************************************************************************)
(* The citation key generator on its own: one item, under a template and   *)
(* a list of banned words taken from the configurations below.             *)
(***************************************************************************)
Absent == <<"absent">>

KTitles ==
    { <<"T","h","e"," ","R","i","s","e"," ","o","f"," ","S","y","s","t","e","m","s">>,
      <<"A"," ","b"," ","c","a","t">>,
      <<"O","n"," ","T","i","m","e",":"," ","x">>,
      <<"t"," ","r","i","s","e">>,
      <<"Z">>,
      <<>>,
      <<"\"","Q","\""," ","x">> }

KDates ==
    { <<"2","0","2","0","-","0","5","-","0","0"," ","x">>,
      <<"0","0","0","0","-","0","0","-","0","0">>,
      <<"9","9">> }

\* the rows of the item's creators, lastName and firstName
KAuthors ==
    { << <<"S","m","i","t","h">>, <<"J">> >>,
      << <<"O","'","N","e","i","l">>, <<>> >>,
      << <<"!","!">>, <<>> >> }

Templates ==
    { DefaultCite,
      <<"{title}">>,
      <<"{Author}", "_", "{Year}", "_", "{title}">>,
      <<"{author}", " ", "{year}", "{Title}">>,
      <<"{Year}">> }

BannedLists == { DefaultBannedWords, <<"t","h","e">> }

\* the item as the passes before _calculate_citekeys leave it in self._t
KeyItem(ti, da, au) ==
    LET i0 == [zotkey |-> "K", collection |-> None, alastnm |-> <<>>, tags |-> <<>>,
               etype |-> "book"]
        i1 == IF ti = Absent THEN i0 ELSE Put(i0, "title", ti)
        i2 == IF da = Absent THEN i1 ELSE Put(i1, "date", da)
    IN  IF au = Absent THEN i2
        ELSE Put(Put(i2, "author", <<au>>), "alastnm", <<",", " ">> \o au[1])

KeyItems ==
    { KeyItem(ti, da, au) : ti \in KTitles \cup {Absent},
                            da \in KDates \cup {Absent},
                            au \in KAuthors \cup {Absent} }

InitKey ==
    /\ cite \in Templates
    /\ w \in BannedLists
    /\ kin \in KeyItems
    /\ kout = EmptyDict
    /\ kpc = "input"
    /\ z = Database0
    /\ mtime = 0
    /\ copy = NoDatabase
    /\ m = 0
    /\ e = <<>>
    /\ d = EmptyDict
    /\ asked = EmptyDict
    /\ pc = "new"
    /\ op = Call("none", "", <<>>, <<>>, <<>>)
    /\ ret = <<>>
    /\ resp = <<>>
    /\ ref = <<>>
    /\ raised = ""
    /\ nexp = 0

\* one turn of the loop of _calculate_citekeys
CalcKey ==
    /\ kpc = "input"
    /\ kout' = CalcCitekey(kin, cite, w)
    /\ kpc' = "done"
    /\ UNCHANGED <<cite, w, z, mtime, copy, m, e, d, asked, pc, op, ret, resp, ref,
                   raised, nexp, kin>>

NextKey == CalcKey

SpecKey == InitKey /\ [][NextKey]_vars

(***************************************************************************)
(* Properties                                                              *)
(***************************************************************************)
\* the item ids that have an entry in the index
IndexedItems(ix) == {r[2] : r \in IndexIds(ix)}
\* the number of entries of the index
IndexSize(ix) == Len(Flatten([i \in 1..Len(ix) |-> ix[i].items]))
\* the items of a database that are in the trash or are attachments
Excluded(db) == db.deleted \cup {i \in ItemIds : ItemType(i) = "attachment"}

\* C1: a SetCollections whose list names a collection that is not a key of
\* the index returns a non-empty string and leaves the document's binding as
\* it was (none, if it had none).
C1_RejectedListKeepsBinding ==
    [][ ( /\ op'.name = "SetCollections"
          /\ op'.clist # <<"">>
          /\ \E i \in DOMAIN op'.clist : ~HasKey(e, op'.clist[i]) )
        => ( /\ ret' # <<>>
             /\ IF op'.doc \in DOMAIN d
                THEN d'[op'.doc] = d[op'.doc]
                ELSE op'.doc \notin DOMAIN d' ) ]_vars

\* C2: when zotero.sqlite is newer than the last load, the next GetMatch or
\* GetYamlRefs loads it again before it answers.
C2_StaleCallReloads ==
    [][ ( /\ mtime > m
          /\ op'.name \in {"GetMatch", "GetYamlRefs"} )
        => ( m' = mtime /\ copy' = z ) ]_vars

\* the list of C3 an entry belongs to: the tests are made on the whole
\* comma-joined string of author last names
ListOfClaim(en, ptrn) ==
    IF Find(StrLower(en.citekey), ptrn) = 0 THEN 1
    ELSE IF en.alastnm # <<>> /\ Find(StrLower(en.alastnm), ptrn) = 0 THEN 2
    ELSE IF Find(StrLower(en.title), ptrn) = 0 THEN 3
    ELSE IF Find(StrLower(en.citekey), ptrn) > 0 THEN 4
    ELSE IF en.alastnm # <<>> /\ Find(StrLower(en.alastnm), ptrn) > 0 THEN 5
    ELSE IF Find(StrLower(en.title), ptrn) > 0 THEN 6
    ELSE 0

LinesOfClaim(ix, collections, ptrn) ==
    LET cands == Candidates(ix, collections)
        Ln(n) == LET At(en) == ListOfClaim(en, ptrn) = n
                     sel == SelectSeq(cands, At)
                 IN  [i \in 1..Len(sel) |-> ComplLine(sel[i])]
    IN  Ln(1) \o Ln(2) \o Ln(3) \o Ln(4) \o Ln(5) \o Ln(6)

\* C3: what GetMatch returns is the concatenation of the six lists (citekey
\* prefix, author-lastnames prefix, title prefix, citekey inside,
\* author-lastnames inside, title inside), each entry in the first list whose
\* test it passes, in storage order within a list.
C3_SixListsInOrder ==
    (op.name = "GetMatch" /\ raised = "")
    => resp = LinesOfClaim(e, SearchedCollections(e, d[op.doc]), op.ptrn)

\* C4: once a document is bound with the empty selection ([''] or []), every
\* later GetMatch for it searches exactly the collections the index has at
\* that time, whatever was loaded in between.
C4_EmptySelectionIsAllCollections ==
    ( /\ op.name = "GetMatch"
      /\ op.doc \in DOMAIN asked
      /\ asked[op.doc] \in { <<"">>, <<>> } )
    => ( /\ raised = ""
         /\ Range(SearchedCollections(e, d[op.doc])) = Range(IndexKeys(e))
         /\ resp = RankedLines(e, IndexKeys(e), op.ptrn) )

\* C5: no item that the loaded database has in deletedItems, and no item of
\* type attachment, has an entry in the index, and no line GetMatch returns
\* and no reference GetYamlRefs returns is of such an item, though asked for.
C5_ExcludedNeverIndexed ==
    /\ IndexedItems(e) \cap Excluded(copy) = {}
    /\ \A i \in DOMAIN resp : \A k \in Excluded(copy) : resp[i].zotkey # ItemKey(k)
    /\ \A i \in DOMAIN ref : \A k \in Excluded(copy) : ZotkeyOf(ref[i].id) # ItemKey(k)

C5_Witness ==
    /\ op.name = "GetYamlRefs"
    /\ Key(3) \in Range(op.keys)
    /\ \E k \in copy.deleted : Key(k) \in Range(op.keys)
    /\ ref # <<>>

Placeholders == {"{author}", "{Author}", "{year}", "{Year}", "{title}", "{Title}"}
\* the template holds a character, not a space, outside its placeholders
HasLiteral(tmpl) == \E i \in DOMAIN tmpl : tmpl[i] \notin Placeholders \cup {" "}

WordsOf(bw) ==
    {SubSeq(bw, i, j) : i \in DOMAIN bw, j \in DOMAIN bw} \cap
    {SubSeq(bw, r[1], r[2]) : r \in {r \in (DOMAIN bw) \X (DOMAIN bw) :
        /\ r[1] <= r[2]
        /\ \A n \in r[1]..r[2] : bw[n] # " "
        /\ (r[1] = 1 \/ bw[r[1] - 1] = " ")
        /\ (r[2] = Len(bw) \/ bw[r[2] + 1] = " ")}}

\* the title word of C7: the lowercased title without one leading word that
\* is a banned word, then without one leading one-letter word, up to the
\* first space or , ; : . ! ?
TitleWordOfClaim(title, bw) ==
    LET t0 == StrLower(title)
        fw == CutAt(t0, {" "})
        t1 == IF Len(fw) < Len(t0) /\ fw \in WordsOf(StrLower(bw))
              THEN Drop(t0, Len(fw) + 1) ELSE t0
    IN  CutAt(StripOneLetter(t1), TitleStops)

\* C7: with the default banned words, the word put for {title} and {Title} is
\* the title word computed as above, so that "The Rise of Systems" gives
\* "rise".
C7_TitleWordSkipsBannedWord ==
    (kpc = "done" /\ "title" \in DOMAIN kin /\ w = DefaultBannedWords)
    => kout.citekey = MakeKey(cite, LastNameOf(kin), ItemYear(kin),
                              StripNonWord(TitleWordOfClaim(kin.title, w)))

\* C8: the entries of the index are exactly the items of the database last
\* loaded that are neither in the trash nor attachments, each once, each in
\* the bucket of a collection it is filed in (None's when it is in none), and
\* no bucket is empty: nothing of an earlier load is left.
C8_IndexIsTheLoadedDatabase ==
    pc = "ready" =>
      /\ IndexedItems(e) = copy.items \ Excluded(copy)
      /\ IndexSize(e) = Cardinality(copy.items \ Excluded(copy))
      /\ \A r \in IndexIds(e) :
           IF copy.member[r[2]] = {} THEN r[1] = None ELSE r[1] \in copy.member[r[2]]
      /\ \A i \in DOMAIN e : e[i].items # <<>>
      /\ \A i \in DOMAIN e, j \in DOMAIN e : e[i].name = e[j].name => i = j

C8_Witness ==
    /\ pc = "ready"
    /\ m > 0
    /\ 1 \notin copy.items
    /\ 1 \notin IndexedItems(e)
    /\ ~HasKey(e, "Alpha")

\* C9: GetYamlRefs leaves the index as it was.
C9_ExportLeavesIndex ==
    [][ op'.name = "GetYamlRefs" => e' = e ]_vars

\* C10: an item filed in a collection that is not "To Read" has such a
\* collection as its 'collection'; it has "To Read" only when that is the one
\* collection it is filed in.
C10_ToReadOnlyWhenAlone ==
    \A r \in IndexIds(e) :
      LET mem  == copy.member[r[2]]
          coll == EntryOf(e, r[1], r[2]).collection
      IN  /\ mem \ {"To Read"} # {} => coll \in mem \ {"To Read"}
          /\ coll = "To Read" => mem = {"To Read"}

C10_Witness ==
    \E r \in IndexIds(e) :
      /\ "To Read" \in copy.member[r[2]]
      /\ Cardinality(copy.member[r[2]]) >= 2
      /\ EntryOf(e, r[1], r[2]).collection \in copy.member[r[2]] \ {"To Read"}

\* C11: every collection name that the binding of a document holds is a key
\* of the index, and no GetMatch for a bound document ends with a KeyError
\* for a collection that the index does not have.
C11_BoundNamesAreIndexKeys ==
    /\ \A doc \in DOMAIN d : \A i \in DOMAIN d[doc] : HasKey(e, d[doc][i])
    /\ (op.name = "GetMatch" /\ op.doc \in DOMAIN d) => raised = ""

====
